---- MODULE Spec2Model ----
(***************************************************************************)
(* Model of the tModLoader control panel (src/main.go): the HTTP start and *)
(* stop handlers, the status monitor loop, the websocket handlers, the     *)
(* broadcast fan-out and the log store, running concurrently against an    *)
(* OS-level `screen` session registry the process does not own.            *)
(*                                                                         *)
(* Strings are tuples of one-character strings so that strings.Contains,   *)
(* HasPrefix, SplitN, TrimSpace and Split are computed, not assumed.       *)
(***************************************************************************)
EXTENDS Integers, Sequences, FiniteSets, TLC

(***************************************************************************)
(* Bounds of the model                                                     *)
(***************************************************************************)
\* most sessions named screenName the registry holds at once
MaxSessions == 2
\* most entries the log store holds in the concurrent specification
MaxLogs == 2
\* number of appends explored by the log store specification
MaxAppends == 12
\* number of websocket connections that can be open at once
NumConns == 2
\* most lines of a hardcopy file in the scrape specification
MaxLines == 3

(***************************************************************************)
(* Program constants                                                       *)
(***************************************************************************)
\* const screenName = "tmod_session"
screenName == <<"t","m","o","d","_","s","e","s","s","i","o","n">>
\* getLastLogs: the window of entries exposed to subscribers
RecentWindow == 10

StatusMethodNotAllowed == 405
StatusConflict == 409
StatusInternalServerError == 500
StatusOK == 200

(***************************************************************************)
(* Execution contexts                                                      *)
(***************************************************************************)
\* the goroutine started by main(): go monitorServerStatus()
Monitor == "mon"
\* goroutines serving POST /start and POST /stop
Reqs == {"r1", "r2"}
Procs == {Monitor} \cup Reqs
\* websocket connections (one wsHandler goroutine each)
Conns == 1..NumConns
NoConn == 0

None == "none"

(***************************************************************************)
(* String helpers (package strings)                                        *)
(***************************************************************************)
HasPrefix(s, prefix) ==
    /\ Len(s) >= Len(prefix)
    /\ SubSeq(s, 1, Len(prefix)) = prefix

\* 0 when sub does not occur, else the first 1-based index of sub in s
Index(s, sub) ==
    LET hits == {i \in 1..(Len(s) - Len(sub) + 1) : SubSeq(s, i, i + Len(sub) - 1) = sub}
    IN IF hits = {} THEN 0 ELSE CHOOSE i \in hits : \A j \in hits : i <= j

Contains(s, sub) == Index(s, sub) > 0

IsSpace(ch) == ch \in {" ", "\t", "\n", "\r"}

RECURSIVE TrimLeft(_)
TrimLeft(s) == IF s # <<>> /\ IsSpace(Head(s)) THEN TrimLeft(Tail(s)) ELSE s

RECURSIVE TrimRight(_)
TrimRight(s) ==
    IF s # <<>> /\ IsSpace(s[Len(s)]) THEN TrimRight(SubSeq(s, 1, Len(s) - 1)) ELSE s

TrimSpace(s) == TrimRight(TrimLeft(s))

\* strings.SplitN(s, sep, 2)
SplitN2(s, sep) ==
    LET i == Index(s, sep)
    IN IF i = 0 THEN <<s>>
       ELSE <<SubSeq(s, 1, i - 1), SubSeq(s, i + Len(sep), Len(s))>>

\* strings.Split(s, sep) for a non-empty sep
RECURSIVE Split(_, _)
Split(s, sep) ==
    LET i == Index(s, sep)
    IN IF i = 0 THEN <<s>>
       ELSE <<SubSeq(s, 1, i - 1)>> \o Split(SubSeq(s, i + Len(sep), Len(s)), sep)

(***************************************************************************)
(* Terminal output the session can show (lines of the hardcopy file)       *)
(***************************************************************************)
MarkerCurrent == <<"C","u","r","r","e","n","t"," ","p","l","a","y","e","r","s">>
MarkerPlayers == <<"P","l","a","y","e","r","s",":">>

LineChat == <<"<","A",">"," ","h","i">>
LinePlayersAB == MarkerPlayers \o <<" ","A",","," ","B">>
LinePlayersNone == MarkerCurrent \o <<":"," ","N","o","n","e">>

\* visible buffers of the session explored by the concurrent specification
Buffers == { <<LineChat>>, <<LinePlayersNone, LinePlayersAB, LineChat>> }

\* lines a window dump can hold, fed to the scrape specification
LineAliceBob == MarkerPlayers \o <<" ","A","l","i","c","e",","," ","B","o","b">>
LineCurrentBare == MarkerCurrent
LinePlayersEmpty == MarkerPlayers \o <<" ">>
LinePlayersPadded == MarkerPlayers \o <<" "," ","A",","," ","B"," ">>
LineCurrentCount == MarkerCurrent \o <<" ","(","2",")",":"," ","A",","," ","B">>
LinePlayersTight == MarkerPlayers \o <<"A",",","B">>
LinePlayersColon == MarkerPlayers \o <<" ","A",":","B",","," ",","," ","C">>
LineMidMarker == <<"x"," ">> \o MarkerPlayers \o <<" ","A">>
LineNoneFirst == MarkerPlayers \o <<" ","N","o","n","e",","," ","A">>

ScrapeLines ==
    { LineChat, LinePlayersAB, LinePlayersNone, LineAliceBob, LineCurrentBare,
      LinePlayersEmpty, LinePlayersPadded, LineCurrentCount, LinePlayersTight,
      LinePlayersColon, LineMidMarker, LineNoneFirst }

\* the hardcopy file: absent, or present with its lines
NoFile == [exists |-> FALSE, lines |-> <<>>]
File(b) == [exists |-> TRUE, lines |-> b]

\* no other session in the registry
NoForeign == <<>>

\* name of a session other than the server's that the registry may hold
ForeignNames == { screenName \o <<"_","o","l","d">> }

(***************************************************************************)
(* State                                                                   *)
(***************************************************************************)
VARIABLES
    sessions,   \* OS: number of screen sessions named screenName
    foreign,    \* OS: name of another screen session present, or NoForeign
    screenBuf,  \* OS: lines currently visible in the server's screen window
    hardcopy,   \* file hardcopyOutput: lines of the last dump, or NoFile
    logs,       \* var logs []string
    logMutex,   \* var logMutex: TRUE while locked
    clients,    \* var clients: the connections registered in the map
    clientsMu,  \* var clientsMu: TRUE while locked
    pc,         \* position of the monitor and of each request goroutine
    resp,       \* HTTP status written to the request (0: nothing written yet)
    entry,      \* argument of the pending addLog call
    msg,        \* broadcastStatus: local msg
    todo,       \* broadcastStatus: connections the range loop has yet to visit
    ws,         \* position of each wsHandler goroutine
    sock,       \* state of each connection's socket
    obs,        \* history: the OS calls and appends of the request being served
    pass,       \* broadcastStatus: local data, and the history of the pass in progress
    sinceFail,  \* history: liveness answers given since the last failed launch
    recent      \* result of the last getLastLogs call of the log store specification

vars == <<sessions, foreign, screenBuf, hardcopy, logs, logMutex, clients,
          clientsMu, pc, resp, entry, msg, todo, ws, sock, obs, pass,
          sinceFail, recent>>

osVars == <<sessions, foreign, screenBuf, hardcopy>>
wsVars == <<ws, sock>>

(***************************************************************************)
(* Pure functions of the program                                           *)
(***************************************************************************)
\* one line of `screen -list` per session: "\t<pid>.<name>\t(Detached)\n"
ListLine(name) == <<"\t", "1", ".">> \o name \o <<"\t", "(", "D", ")", "\n">>

RECURSIVE Repeat(_, _)
Repeat(s, n) == IF n = 0 THEN <<>> ELSE s \o Repeat(s, n - 1)

\* stdout of `screen -list` in the current registry
ScreenList(own, other) ==
    Repeat(ListLine(screenName), own)
        \o (IF other = NoForeign THEN <<>> ELSE ListLine(other))

\* `screen -list` exits non-zero when the registry is empty
ListCanSucceed(own, other) == own > 0 \/ other # NoForeign

\* whether cmd.Output() of `screen -list` returns without error: never on an
\* empty registry; on a populated one the command can still fail when faults
\* of the command itself are considered
ListResults(faulty, own, other) ==
    {ok \in BOOLEAN : /\ ok => ListCanSucceed(own, other)
                      /\ ~faulty => (ok <=> ListCanSucceed(own, other))}

\* isServerRunning: false when the command fails, else a substring test
isServerRunning(listOk, own, other) ==
    IF ~listOk THEN FALSE ELSE Contains(ScreenList(own, other), screenName)

\* `screen -S screenName -X ...` needs a session the name selects
SessionSelectable(own, other) ==
    own > 0 \/ (other # NoForeign /\ Contains(other, screenName))

\* parsePlayersLine splitting on the comma alone
parsePlayersLine_SplitOnComma(line) ==
    IF Contains(line, <<":">>)
    THEN LET parts == SplitN2(line, <<":">>)
         IN IF Len(parts) > 1
            THEN LET raw == TrimSpace(parts[2])
                 IN IF raw = <<"N","o","n","e">> \/ raw = <<>>
                    THEN <<>>
                    ELSE Split(raw, <<",">>)
            ELSE <<>>
    ELSE <<>>

\* parsePlayersLine
parsePlayersLine(line) ==
    IF Contains(line, <<":">>)
    THEN LET parts == SplitN2(line, <<":">>)
         IN IF Len(parts) > 1
            THEN LET raw == TrimSpace(parts[2])
                 IN IF raw = <<"N","o","n","e">> \/ raw = <<>>
                    THEN <<>>
                    ELSE Split(raw, <<",", " ">>)
            ELSE <<>>
    ELSE <<>>

IsPlayersLine(line) == HasPrefix(line, MarkerCurrent) \/ HasPrefix(line, MarkerPlayers)

\* getCurrentPlayers scanning the dumped lines from the top down
ExtractPlayers_TopDown(lines) ==
    LET hits == {i \in 1..Len(lines) : IsPlayersLine(lines[i])}
    IN IF hits = {} THEN <<>>
       ELSE parsePlayersLine(lines[CHOOSE i \in hits : \A j \in hits : i <= j])

\* getCurrentPlayers, the scan of the dumped lines from the bottom up
ExtractPlayers(lines) ==
    LET hits == {i \in 1..Len(lines) : IsPlayersLine(lines[i])}
    IN IF hits = {} THEN <<>>
       ELSE parsePlayersLine(lines[CHOOSE i \in hits : \A j \in hits : j <= i])

\* saveScreenOutput: the file after `screen -S screenName -X hardcopy <file>`.
\* A failed dump leaves the file as it was; a dump taken while only another
\* session answers to the name holds that session's window.
saveScreenOutput ==
    {hardcopy}
      \cup (IF sessions > 0 THEN {File(screenBuf)} ELSE {})
      \cup (IF sessions = 0 /\ SessionSelectable(sessions, foreign)
            THEN {File(b) : b \in Buffers} ELSE {})

\* getLastLogs with the window starting one entry too early
getLastLogs_OneTooMany(l) ==
    IF Len(l) <= RecentWindow THEN l
    ELSE SubSeq(l, Len(l) - RecentWindow, Len(l))

\* getLastLogs
getLastLogs(l) ==
    IF Len(l) <= RecentWindow THEN l
    ELSE SubSeq(l, Len(l) - RecentWindow + 1, Len(l))

\* addLog: fmt.Sprintf("[%s] %s", time.Now().Format("15:04:05"), entry)
FormatLog(e) == <<"[", "15:04:05", "]", " ", e>>

LogStarted == "Server started at"
LogStopped == "Server stopped at"
LogFailed == "Failed to start server: "

\* json.Marshal(msg): the logs field is omitempty
Marshal(m) ==
    IF m.logs = <<>> THEN [status |-> m.status, players |-> m.players]
    ELSE [status |-> m.status, players |-> m.players, logs |-> m.logs]

\* broadcastStatus keeping the connection whose write failed
AfterWriteError_Keep(cl, c) == cl

\* broadcastStatus: the map after a write to c failed (delete(clients, client))
AfterWriteError(cl, c) == cl \ {c}

\* broadcastStatus leaving the loop at the first failed write
RangeRest_StopOnError(rest, c, ok) == IF ok THEN rest \ {c} ELSE {}

\* broadcastStatus: what the range loop still visits after the write to c
RangeRest(rest, c, ok) == rest \ {c}

(***************************************************************************)
(* Initial state                                                           *)
(***************************************************************************)
NoMsg == [status |-> "stopped", players |-> <<>>, logs |-> <<>>]
NoObs == [launch |-> "none", stuff |-> "none", appended |-> <<>>]
NoPass == [active |-> FALSE, start |-> {}, visits |-> <<>>, hung |-> NoConn,
           queried |-> FALSE, data |-> [status |-> None]]

Init ==
    /\ sessions \in {0, 1}
    /\ foreign = NoForeign
    /\ screenBuf \in Buffers
    /\ hardcopy = NoFile
    /\ logs = <<>>
    /\ logMutex = FALSE
    /\ clients = {}
    /\ clientsMu = FALSE
    /\ pc = [p \in Procs |-> IF p = Monitor THEN "m_check" ELSE "idle"]
    /\ resp = [p \in Reqs |-> 0]
    /\ entry = [p \in Procs |-> None]
    /\ msg = [p \in Procs |-> NoMsg]
    /\ todo = [p \in Procs |-> {}]
    /\ ws = [c \in Conns |-> "free"]
    /\ sock = [c \in Conns |-> "none"]
    /\ obs = [p \in Reqs |-> NoObs]
    /\ pass = [p \in Procs |-> NoPass]
    /\ sinceFail = "none"
    /\ recent = <<>>

(***************************************************************************)
(* History bookkeeping                                                     *)
(***************************************************************************)
\* a liveness answer given by isServerRunning, seen after a failed launch
NoteAnswer(r) == IF sinceFail = "clean" /\ r THEN "running" ELSE sinceFail

\* requests in flight may each still append one entry
LogRoom == Len(logs) + Cardinality({q \in Reqs : pc[q] # "idle"}) < MaxLogs

(***************************************************************************)
(* startHandler                                                            *)
(***************************************************************************)
\* lines 95-100: the method check
StartRequest(p) ==
    /\ pc[p] = "idle"
    /\ LogRoom
    /\ \E method \in {"POST", "GET"} :
          IF method # "POST"
          THEN /\ resp' = [resp EXCEPT ![p] = StatusMethodNotAllowed]
               /\ pc' = pc
          ELSE /\ resp' = [resp EXCEPT ![p] = 0]
               /\ pc' = [pc EXCEPT ![p] = "s_check"]
    /\ obs' = [obs EXCEPT ![p] = NoObs]
    /\ UNCHANGED <<osVars, logs, logMutex, clients, clientsMu, entry, msg, todo,
                   wsVars, pass, sinceFail, recent>>

\* startHandler without the return after the 409 answer
StartCheck_NoReturn(p, faulty) ==
    /\ pc[p] = "s_check"
    /\ \E listOk \in ListResults(faulty, sessions, foreign) :
          /\ LET r == isServerRunning(listOk, sessions, foreign)
             IN /\ IF r
                   THEN /\ resp' = [resp EXCEPT ![p] = StatusConflict]
                        /\ pc' = [pc EXCEPT ![p] = "s_launch"]
                   ELSE /\ resp' = resp
                        /\ pc' = [pc EXCEPT ![p] = "s_launch"]
                /\ sinceFail' = NoteAnswer(r)
    /\ UNCHANGED <<osVars, logs, logMutex, clients, clientsMu, entry, msg,
                   todo, wsVars, obs, pass, recent>>

\* lines 102-106: if isServerRunning() { 409 }
StartCheck(p, faulty) ==
    /\ pc[p] = "s_check"
    /\ \E listOk \in ListResults(faulty, sessions, foreign) :
          /\ LET r == isServerRunning(listOk, sessions, foreign)
             IN /\ IF r
                   THEN /\ resp' = [resp EXCEPT ![p] = StatusConflict]
                        /\ pc' = [pc EXCEPT ![p] = "idle"]
                   ELSE /\ resp' = resp
                        /\ pc' = [pc EXCEPT ![p] = "s_launch"]
                /\ sinceFail' = NoteAnswer(r)
    /\ UNCHANGED <<osVars, logs, logMutex, clients, clientsMu, entry, msg,
                   todo, wsVars, obs, pass, recent>>

\* lines 108-117: screen -S screenName -dm bash -c expectScript
StartLaunch(p) ==
    /\ pc[p] = "s_launch"
    /\ \E ok \in BOOLEAN :
          /\ ok => sessions < MaxSessions
          /\ IF ok
             THEN /\ sessions' = sessions + 1
                  /\ resp' = resp
                  /\ entry' = [entry EXCEPT ![p] = LogStarted]
                  /\ sinceFail' = "none"
                  /\ obs' = [obs EXCEPT ![p].launch = "ok"]
             ELSE /\ sessions' = sessions
                  /\ resp' = [resp EXCEPT ![p] = StatusInternalServerError]
                  /\ entry' = [entry EXCEPT ![p] = LogFailed]
                  /\ sinceFail' = "clean"
                  /\ obs' = [obs EXCEPT ![p].launch = "failed"]
    /\ pc' = [pc EXCEPT ![p] = "addLog"]
    /\ UNCHANGED <<foreign, screenBuf, hardcopy, logs, logMutex, clients,
                   clientsMu, msg, todo, wsVars, pass, recent>>

(***************************************************************************)
(* stopHandler                                                             *)
(***************************************************************************)
\* lines 122-127: the method check
StopRequest(p) ==
    /\ pc[p] = "idle"
    /\ LogRoom
    /\ \E method \in {"POST", "GET"} :
          IF method # "POST"
          THEN /\ resp' = [resp EXCEPT ![p] = StatusMethodNotAllowed]
               /\ pc' = pc
          ELSE /\ resp' = [resp EXCEPT ![p] = 0]
               /\ pc' = [pc EXCEPT ![p] = "t_check"]
    /\ obs' = [obs EXCEPT ![p] = NoObs]
    /\ UNCHANGED <<osVars, logs, logMutex, clients, clientsMu, entry, msg, todo,
                   wsVars, pass, sinceFail, recent>>

\* lines 129-133: if !isServerRunning() { 409 }
StopCheck(p, faulty) ==
    /\ pc[p] = "t_check"
    /\ \E listOk \in ListResults(faulty, sessions, foreign) :
          /\ LET r == isServerRunning(listOk, sessions, foreign)
             IN /\ IF ~r
                   THEN /\ resp' = [resp EXCEPT ![p] = StatusConflict]
                        /\ pc' = [pc EXCEPT ![p] = "idle"]
                   ELSE /\ resp' = resp
                        /\ pc' = [pc EXCEPT ![p] = "t_send"]
                /\ sinceFail' = NoteAnswer(r)
    /\ UNCHANGED <<osVars, logs, logMutex, clients, clientsMu, entry, msg,
                   todo, wsVars, obs, pass, recent>>

\* lines 135-139 with sendScreenCommand (155-161): the error is printed and dropped
StopSend(p) ==
    /\ pc[p] = "t_send"
    /\ \E ok \in BOOLEAN :
          /\ ok => SessionSelectable(sessions, foreign)
          /\ obs' = [obs EXCEPT ![p].stuff = IF ok THEN "ok" ELSE "failed"]
    /\ entry' = [entry EXCEPT ![p] = LogStopped]
    /\ pc' = [pc EXCEPT ![p] = "addLog"]
    /\ UNCHANGED <<osVars, logs, logMutex, clients, clientsMu, resp, msg,
                   todo, wsVars, pass, sinceFail, recent>>

(***************************************************************************)
(* addLog                                                                  *)
(***************************************************************************)
\* line 221: logMutex.Lock()
AddLogLock(p) ==
    /\ pc[p] = "addLog"
    /\ ~logMutex
    /\ logMutex' = TRUE
    /\ pc' = [pc EXCEPT ![p] = "addLog_cs"]
    /\ UNCHANGED <<osVars, logs, clients, clientsMu, resp, entry, msg, todo,
                   wsVars, obs, pass, sinceFail, recent>>

\* lines 222-225: append and unlock; the failed start returns, the others broadcast
AddLogAppend(p) ==
    /\ pc[p] = "addLog_cs"
    /\ logMutex
    /\ logs' = Append(logs, FormatLog(entry[p]))
    /\ logMutex' = FALSE
    /\ obs' = [obs EXCEPT ![p] = IF entry[p] = LogFailed THEN NoObs
                                 ELSE [@ EXCEPT !.appended = Append(@, entry[p])]]
    /\ entry' = [entry EXCEPT ![p] = None]
    /\ pc' = [pc EXCEPT ![p] = IF entry[p] = LogFailed THEN "idle" ELSE "b_lock"]
    /\ UNCHANGED <<osVars, clients, clientsMu, resp, msg, todo, wsVars,
                   pass, sinceFail, recent>>

(***************************************************************************)
(* broadcastStatus                                                         *)
(***************************************************************************)
\* broadcastStatus entering without waiting for clientsMu
BroadcastLock_NoWait(p) ==
    /\ pc[p] = "b_lock"
    /\ clientsMu' = TRUE
    /\ pc' = [pc EXCEPT ![p] = "b_logs"]
    /\ pass' = [pass EXCEPT ![p] = [NoPass EXCEPT !.active = TRUE]]
    /\ UNCHANGED <<osVars, logs, logMutex, clients, resp, entry, msg, todo,
                   wsVars, obs, sinceFail, recent>>

\* line 166: clientsMu.Lock()
BroadcastLock(p) ==
    /\ pc[p] = "b_lock"
    /\ ~clientsMu
    /\ clientsMu' = TRUE
    /\ pc' = [pc EXCEPT ![p] = "b_logs"]
    /\ pass' = [pass EXCEPT ![p] = [NoPass EXCEPT !.active = TRUE]]
    /\ UNCHANGED <<osVars, logs, logMutex, clients, resp, entry, msg, todo,
                   wsVars, obs, sinceFail, recent>>

\* line 173 -> 208: getLastLogs takes logMutex while clientsMu is held
GetLastLogsLock(p) ==
    /\ pc[p] = "b_logs"
    /\ ~logMutex
    /\ logMutex' = TRUE
    /\ pc' = [pc EXCEPT ![p] = "b_logs_cs"]
    /\ UNCHANGED <<osVars, logs, clients, clientsMu, resp, entry, msg, todo,
                   wsVars, obs, pass, sinceFail, recent>>

\* getLastLogs returning without logMutex.Unlock()
GetLastLogsRead_NoUnlock(p) ==
    /\ pc[p] = "b_logs_cs"
    /\ logMutex
    /\ msg' = [msg EXCEPT ![p] = [status |-> "stopped", players |-> <<>>,
                                  logs |-> getLastLogs(logs)]]
    /\ logMutex' = TRUE
    /\ pc' = [pc EXCEPT ![p] = "b_check"]
    /\ UNCHANGED <<osVars, logs, clients, clientsMu, resp, entry, todo,
                   wsVars, obs, pass, sinceFail, recent>>

\* lines 170-174, 209-216: msg is built with the default status and the recent logs
GetLastLogsRead(p) ==
    /\ pc[p] = "b_logs_cs"
    /\ logMutex
    /\ msg' = [msg EXCEPT ![p] = [status |-> "stopped", players |-> <<>>,
                                  logs |-> getLastLogs(logs)]]
    /\ logMutex' = FALSE
    /\ pc' = [pc EXCEPT ![p] = "b_check"]
    /\ UNCHANGED <<osVars, logs, clients, clientsMu, resp, entry, todo,
                   wsVars, obs, pass, sinceFail, recent>>

\* broadcastStatus calling getCurrentPlayers whatever the liveness answer
BroadcastCheck_QueryAlways(p, faulty) ==
    /\ pc[p] = "b_check"
    /\ \E listOk \in ListResults(faulty, sessions, foreign) :
          /\ LET r == isServerRunning(listOk, sessions, foreign)
             IN /\ IF r
                   THEN /\ msg' = [msg EXCEPT ![p].status = "running"]
                        /\ pc' = [pc EXCEPT ![p] = "p_send"]
                   ELSE /\ msg' = msg
                        /\ pc' = [pc EXCEPT ![p] = "p_send"]
                /\ sinceFail' = NoteAnswer(r)
    /\ UNCHANGED <<osVars, logs, logMutex, clients, clientsMu, resp, entry,
                   todo, wsVars, obs, pass, recent>>

\* lines 177-178: if isServerRunning() { msg.Status = "running" ... }
BroadcastCheck(p, faulty) ==
    /\ pc[p] = "b_check"
    /\ \E listOk \in ListResults(faulty, sessions, foreign) :
          /\ LET r == isServerRunning(listOk, sessions, foreign)
             IN /\ IF r
                   THEN /\ msg' = [msg EXCEPT ![p].status = "running"]
                        /\ pc' = [pc EXCEPT ![p] = "p_send"]
                   ELSE /\ msg' = msg
                        /\ pc' = [pc EXCEPT ![p] = "b_marshal"]
                /\ sinceFail' = NoteAnswer(r)
    /\ UNCHANGED <<osVars, logs, logMutex, clients, clientsMu, resp, entry,
                   todo, wsVars, obs, pass, recent>>

\* line 290: getCurrentPlayers sends the players query (a failure is dropped)
PlayersSend(p) ==
    /\ pc[p] = "p_send"
    /\ \E ok \in BOOLEAN : ok => SessionSelectable(sessions, foreign)
    /\ pass' = [pass EXCEPT ![p].queried = TRUE]
    /\ pc' = [pc EXCEPT ![p] = "p_sleep"]
    /\ UNCHANGED <<osVars, logs, logMutex, clients, clientsMu, resp, entry,
                   msg, todo, wsVars, obs, sinceFail, recent>>

\* line 293: time.Sleep(2 * time.Second)
PlayersSleep(p) ==
    /\ pc[p] = "p_sleep"
    /\ pc' = [pc EXCEPT ![p] = "p_save"]
    /\ UNCHANGED <<osVars, logs, logMutex, clients, clientsMu, resp, entry,
                   msg, todo, wsVars, obs, pass, sinceFail, recent>>

\* line 296 -> 280-285: saveScreenOutput, a failure leaves the old file
PlayersSave(p) ==
    /\ pc[p] = "p_save"
    /\ hardcopy' \in saveScreenOutput
    /\ pc' = [pc EXCEPT ![p] = "p_read"]
    /\ UNCHANGED <<sessions, foreign, screenBuf, logs, logMutex, clients,
                   clientsMu, resp, entry, msg, todo, wsVars, obs, pass,
                   sinceFail, recent>>

\* lines 299-322: open the file, read its lines, scan from the bottom up
PlayersRead(p) ==
    /\ pc[p] = "p_read"
    /\ \E openOk \in BOOLEAN :
          /\ openOk => hardcopy.exists
          /\ msg' = [msg EXCEPT ![p].players =
                        IF openOk THEN ExtractPlayers(hardcopy.lines) ELSE <<>>]
    /\ pc' = [pc EXCEPT ![p] = "b_marshal"]
    /\ UNCHANGED <<osVars, logs, logMutex, clients, clientsMu, resp, entry,
                   todo, wsVars, obs, pass, sinceFail, recent>>

\* lines 183-190: json.Marshal (cannot fail on strings), then the range begins
BroadcastMarshal(p) ==
    /\ pc[p] = "b_marshal"
    /\ todo' = [todo EXCEPT ![p] = clients]
    /\ pass' = [pass EXCEPT ![p].start = clients, ![p].data = Marshal(msg[p])]
    /\ pc' = [pc EXCEPT ![p] = "b_write"]
    /\ UNCHANGED <<osVars, logs, logMutex, clients, clientsMu, resp, entry,
                   msg, wsVars, obs, sinceFail, recent>>

\* lines 190-203: one iteration of the range over the map, in any order
BroadcastWrite(p, c) ==
    /\ pc[p] = "b_write"
    /\ c \in todo[p]
    /\ \E outcome \in {"ok", "error", "hang"} :
          CASE outcome = "ok" ->
                 /\ pass' = [pass EXCEPT ![p].visits =
                                 Append(@, [conn |-> c, ok |-> TRUE, data |-> pass[p].data])]
                 /\ todo' = [todo EXCEPT ![p] = RangeRest(@, c, TRUE)]
                 /\ UNCHANGED <<clients, sock, pc>>
            [] outcome = "error" ->
                 /\ clients' = AfterWriteError(clients, c)
                 /\ sock' = [sock EXCEPT ![c] = "closed"]
                 /\ pass' = [pass EXCEPT ![p].visits =
                                 Append(@, [conn |-> c, ok |-> FALSE, data |-> pass[p].data])]
                 /\ todo' = [todo EXCEPT ![p] = RangeRest(@, c, FALSE)]
                 /\ UNCHANGED pc
            [] outcome = "hang" ->
                 /\ pc' = [pc EXCEPT ![p] = "hung"]
                 /\ pass' = [pass EXCEPT ![p].hung = c]
                 /\ UNCHANGED <<clients, sock, todo>>
    /\ UNCHANGED <<osVars, logs, logMutex, clientsMu, resp, entry, msg, ws,
                   obs, sinceFail, recent>>

\* line 167 (deferred): clientsMu.Unlock(), then the caller continues
BroadcastUnlock(p) ==
    /\ pc[p] = "b_write"
    /\ todo[p] = {}
    /\ clientsMu
    /\ clientsMu' = FALSE
    /\ pass' = [pass EXCEPT ![p] = NoPass]
    /\ msg' = [msg EXCEPT ![p] = NoMsg]
    /\ IF p = Monitor
       THEN /\ pc' = [pc EXCEPT ![p] = "m_sleep"]
            /\ UNCHANGED <<resp, obs>>
       ELSE /\ pc' = [pc EXCEPT ![p] = "idle"]
            /\ resp' = [resp EXCEPT ![p] = IF @ = 0 THEN StatusOK ELSE @]
            /\ obs' = [obs EXCEPT ![p] = NoObs]
    /\ UNCHANGED <<osVars, logs, logMutex, clients, entry, todo, wsVars,
                   sinceFail, recent>>

(***************************************************************************)
(* monitorServerStatus                                                     *)
(***************************************************************************)
\* line 267: if isServerRunning()
MonitorCheck(faulty) ==
    /\ pc[Monitor] = "m_check"
    /\ \E listOk \in ListResults(faulty, sessions, foreign) :
          /\ LET r == isServerRunning(listOk, sessions, foreign)
             IN /\ pc' = [pc EXCEPT ![Monitor] = IF r THEN "m_save" ELSE "b_lock"]
                /\ sinceFail' = NoteAnswer(r)
    /\ UNCHANGED <<osVars, logs, logMutex, clients, clientsMu, resp, entry,
                   msg, todo, wsVars, obs, pass, recent>>

\* line 268 -> 280-285: saveScreenOutput
MonitorSave ==
    /\ pc[Monitor] = "m_save"
    /\ hardcopy' \in saveScreenOutput
    /\ pc' = [pc EXCEPT ![Monitor] = "b_lock"]
    /\ UNCHANGED <<sessions, foreign, screenBuf, logs, logMutex, clients,
                   clientsMu, resp, entry, msg, todo, wsVars, obs, pass,
                   sinceFail, recent>>

\* line 275: time.Sleep(5 * time.Second), then the next iteration
MonitorSleep ==
    /\ pc[Monitor] = "m_sleep"
    /\ pc' = [pc EXCEPT ![Monitor] = "m_check"]
    /\ UNCHANGED <<osVars, logs, logMutex, clients, clientsMu, resp, entry,
                   msg, todo, wsVars, obs, pass, sinceFail, recent>>

(***************************************************************************)
(* wsHandler                                                               *)
(***************************************************************************)
\* lines 231-242: a peer connects and the upgrade succeeds
WsUpgrade(c) ==
    /\ ws[c] = "free"
    /\ ws' = [ws EXCEPT ![c] = "add"]
    /\ sock' = [sock EXCEPT ![c] = "open"]
    /\ UNCHANGED <<osVars, logs, logMutex, clients, clientsMu, pc, resp,
                   entry, msg, todo, obs, pass, sinceFail, recent>>

\* line 245: clientsMu.Lock()
WsAddLock(c) ==
    /\ ws[c] = "add"
    /\ ~clientsMu
    /\ clientsMu' = TRUE
    /\ ws' = [ws EXCEPT ![c] = "add_cs"]
    /\ UNCHANGED <<osVars, logs, logMutex, clients, pc, resp, entry, msg,
                   todo, sock, obs, pass, sinceFail, recent>>

\* lines 246-247: clients[conn] = true; clientsMu.Unlock()
WsAdd(c) ==
    /\ ws[c] = "add_cs"
    /\ clientsMu
    /\ clients' = clients \cup {c}
    /\ clientsMu' = FALSE
    /\ ws' = [ws EXCEPT ![c] = "read"]
    /\ UNCHANGED <<osVars, logs, logMutex, pc, resp, entry, msg, todo, sock,
                   obs, pass, sinceFail, recent>>

\* the peer goes away
PeerDisconnect(c) ==
    /\ sock[c] = "open"
    /\ sock' = [sock EXCEPT ![c] = "peergone"]
    /\ UNCHANGED <<osVars, logs, logMutex, clients, clientsMu, pc, resp,
                   entry, msg, todo, ws, obs, pass, sinceFail, recent>>

\* lines 250-255: ReadMessage fails once the peer is gone or the socket is closed
WsReadError(c) ==
    /\ ws[c] = "read"
    /\ sock[c] \in {"peergone", "closed"}
    /\ ws' = [ws EXCEPT ![c] = "del"]
    /\ UNCHANGED <<osVars, logs, logMutex, clients, clientsMu, pc, resp,
                   entry, msg, todo, sock, obs, pass, sinceFail, recent>>

\* line 258: clientsMu.Lock()
WsDelLock(c) ==
    /\ ws[c] = "del"
    /\ ~clientsMu
    /\ clientsMu' = TRUE
    /\ ws' = [ws EXCEPT ![c] = "del_cs"]
    /\ UNCHANGED <<osVars, logs, logMutex, clients, pc, resp, entry, msg,
                   todo, sock, obs, pass, sinceFail, recent>>

\* lines 259-260 and the deferred conn.Close() of 238-242
WsDel(c) ==
    /\ ws[c] = "del_cs"
    /\ clientsMu
    /\ clients' = clients \ {c}
    /\ clientsMu' = FALSE
    /\ ws' = [ws EXCEPT ![c] = "free"]
    /\ sock' = [sock EXCEPT ![c] = "none"]
    /\ UNCHANGED <<osVars, logs, logMutex, pc, resp, entry, msg, todo, obs,
                   pass, sinceFail, recent>>

(***************************************************************************)
(* The OS outside the process                                              *)
(***************************************************************************)
\* a session named screenName ends (the server exits or crashes)
SessionExit ==
    /\ sessions > 0
    /\ sessions' = sessions - 1
    /\ UNCHANGED <<foreign, screenBuf, hardcopy, logs, logMutex, clients,
                   clientsMu, pc, resp, entry, msg, todo, wsVars, obs, pass,
                   sinceFail, recent>>

\* somebody else creates or ends a screen session of another name
ForeignChange ==
    /\ \E n \in ForeignNames \cup {NoForeign} :
          /\ n # foreign
          /\ foreign' = n
    /\ UNCHANGED <<sessions, screenBuf, hardcopy, logs, logMutex, clients,
                   clientsMu, pc, resp, entry, msg, todo, wsVars, obs, pass,
                   sinceFail, recent>>

\* the server prints to its window
ScreenOutput ==
    /\ sessions > 0
    /\ \E b \in Buffers :
          /\ b # screenBuf
          /\ screenBuf' = b
    /\ UNCHANGED <<sessions, foreign, hardcopy, logs, logMutex, clients,
                   clientsMu, pc, resp, entry, msg, todo, wsVars, obs, pass,
                   sinceFail, recent>>

(***************************************************************************)
(* Steps of the goroutines, grouped                                        *)
(***************************************************************************)
\* steps of a start or stop request up to its broadcast
RequestStep(p, faulty) ==
    \/ StartRequest(p)
    \/ StartCheck(p, faulty)
    \/ StartLaunch(p)
    \/ StopRequest(p)
    \/ StopCheck(p, faulty)
    \/ StopSend(p)
    \/ AddLogLock(p)
    \/ AddLogAppend(p)

\* steps of broadcastStatus before and after the range over the subscribers
SnapshotStep(p, faulty) ==
    \/ BroadcastLock(p)
    \/ GetLastLogsLock(p)
    \/ GetLastLogsRead(p)
    \/ BroadcastCheck(p, faulty)
    \/ PlayersSend(p)
    \/ PlayersSleep(p)
    \/ PlayersSave(p)
    \/ PlayersRead(p)
    \/ BroadcastMarshal(p)
    \/ BroadcastUnlock(p)

MonitorStep(faulty) ==
    \/ MonitorCheck(faulty)
    \/ MonitorSave
    \/ MonitorSleep

WsStep(c) ==
    \/ WsUpgrade(c)
    \/ WsAddLock(c)
    \/ WsAdd(c)
    \/ PeerDisconnect(c)
    \/ WsReadError(c)
    \/ WsDelLock(c)
    \/ WsDel(c)

(***************************************************************************)
(* Session control: start and stop requests race with each other, with the *)
(* monitor and with the OS, while no websocket peer is connected.          *)
(***************************************************************************)
SessionNext ==
    \/ \E p \in Reqs : RequestStep(p, TRUE)
    \/ \E p \in Procs : SnapshotStep(p, TRUE)
    \/ MonitorStep(TRUE)
    \/ SessionExit
    \/ ForeignChange

SessionInit == Init /\ screenBuf = <<LineChat>>

SessionSpec == SessionInit /\ [][SessionNext]_vars

(***************************************************************************)
(* Session control on a registry that answers truthfully: `screen -list`   *)
(* fails only when the registry is empty and nobody else creates sessions. *)
(***************************************************************************)
ReliableNext ==
    \/ \E p \in Reqs : RequestStep(p, FALSE)
    \/ \E p \in Procs : SnapshotStep(p, FALSE)
    \/ MonitorStep(FALSE)
    \/ SessionExit

ReliableSpec == SessionInit /\ [][ReliableNext]_vars

(***************************************************************************)
(* Broadcast hub: websocket peers come and go while the monitor loop       *)
(* broadcasts on every tick; no start or stop request arrives.             *)
(***************************************************************************)
HubNext ==
    \/ SnapshotStep(Monitor, TRUE)
    \/ \E c \in Conns : BroadcastWrite(Monitor, c)
    \/ MonitorStep(TRUE)
    \/ \E c \in Conns : WsStep(c)
    \/ SessionExit
    \/ ScreenOutput

HubSpec == Init /\ [][HubNext]_vars

\* the Go scheduler runs every goroutine that can take a step; a write that
\* hangs and a wait on a held mutex are not steps
HubFairness ==
    /\ WF_vars(SnapshotStep(Monitor, TRUE))
    /\ WF_vars(MonitorStep(TRUE))
    /\ \A c \in Conns : WF_vars(BroadcastWrite(Monitor, c))
    /\ \A c \in Conns : WF_vars(WsAddLock(c) \/ WsAdd(c) \/ WsReadError(c)
                                  \/ WsDelLock(c) \/ WsDel(c))

HubFairSpec == HubSpec /\ HubFairness

\* sync.Mutex hands a lock over to a goroutine that has waited for it (its
\* starvation mode), so a Lock() that can proceed again and again does proceed
HubLockFairness ==
    /\ SF_vars(BroadcastLock(Monitor))
    /\ SF_vars(GetLastLogsLock(Monitor))
    /\ \A c \in Conns : SF_vars(WsAddLock(c)) /\ SF_vars(WsDelLock(c))

HubLockFairSpec == HubSpec /\ HubFairness /\ HubLockFairness

(***************************************************************************)
(* Log store alone: entries are appended and the recent window is read.    *)
(***************************************************************************)
\* addLog (lines 220-226) called with entry e
LogAppend(e) ==
    /\ Len(logs) < MaxAppends
    /\ ~logMutex
    /\ logs' = Append(logs, FormatLog(e))
    /\ UNCHANGED <<osVars, logMutex, clients, clientsMu, pc, resp, entry, msg,
                   todo, wsVars, obs, pass, sinceFail, recent>>

\* getLastLogs (lines 207-217) called by a reader
LogRecent ==
    /\ ~logMutex
    /\ recent' = getLastLogs(logs)
    /\ UNCHANGED <<osVars, logs, logMutex, clients, clientsMu, pc, resp, entry,
                   msg, todo, wsVars, obs, pass, sinceFail>>

LogNext ==
    \/ \E e \in {LogStarted, LogStopped} : LogAppend(e)
    \/ LogRecent

LogInit == SessionInit /\ sessions = 0

LogSpec == LogInit /\ [][LogNext]_vars

(***************************************************************************)
(* Liveness query alone: the monitor loop runs against a registry in which *)
(* the server's session and sessions of other names come and go, while     *)
(* `screen -list` itself answers truthfully.                               *)
(***************************************************************************)
\* names of other sessions: one that contains screenName and one that does not
RegistryNames == ForeignNames \cup { <<"i","r","c">> }

\* somebody else starts or ends a session of another name
RegistryChange ==
    /\ foreign' \in ({NoForeign} \cup RegistryNames) \ {foreign}
    /\ UNCHANGED <<sessions, screenBuf, hardcopy, logs, logMutex, clients,
                   clientsMu, pc, resp, entry, msg, todo, wsVars, obs, pass,
                   sinceFail, recent>>

RegistryNext ==
    \/ MonitorStep(FALSE)
    \/ SnapshotStep(Monitor, FALSE)
    \/ SessionExit
    \/ RegistryChange

RegistrySpec == SessionInit /\ [][RegistryNext]_vars

(***************************************************************************)
(* Scrape alone: a broadcast pass that found the session running is about  *)
(* to read a hardcopy file holding any lines a window dump can hold.       *)
(***************************************************************************)
ScrapeFiles ==
    {NoFile} \cup {File(b) : b \in UNION {[1..n -> ScrapeLines] : n \in 0..MaxLines}}

ScrapeInit ==
    /\ sessions = 1
    /\ foreign = NoForeign
    /\ screenBuf = <<LineChat>>
    /\ hardcopy \in ScrapeFiles
    /\ logs = <<>>
    /\ logMutex = FALSE
    /\ clients = {}
    /\ clientsMu = TRUE
    /\ pc = [p \in Procs |-> IF p = Monitor THEN "p_read" ELSE "idle"]
    /\ resp = [p \in Reqs |-> 0]
    /\ entry = [p \in Procs |-> None]
    /\ msg = [p \in Procs |-> IF p = Monitor THEN [NoMsg EXCEPT !.status = "running"]
                               ELSE NoMsg]
    /\ todo = [p \in Procs |-> {}]
    /\ ws = [c \in Conns |-> "free"]
    /\ sock = [c \in Conns |-> "none"]
    /\ obs = [p \in Reqs |-> NoObs]
    /\ pass = [p \in Procs |-> IF p = Monitor
                                THEN [NoPass EXCEPT !.active = TRUE, !.queried = TRUE]
                                ELSE NoPass]
    /\ sinceFail = "none"
    /\ recent = <<>>

ScrapeNext == PlayersRead(Monitor)

ScrapeSpec == ScrapeInit /\ [][ScrapeNext]_vars

(***************************************************************************)
(* Whole server on a quiet OS: one request goroutine, the monitor loop and *)
(* one websocket connection share the two mutexes; `screen -list` answers  *)
(* truthfully and the session, once launched, stays up.                    *)
(***************************************************************************)
ServeReqs == {"r1"}
ServeConns == {1, 2}

ServeNext ==
    \/ \E p \in ServeReqs : RequestStep(p, FALSE)
    \/ \E p \in ServeReqs \cup {Monitor} : SnapshotStep(p, FALSE)
    \/ \E p \in ServeReqs \cup {Monitor} : \E c \in ServeConns : BroadcastWrite(p, c)
    \/ MonitorStep(FALSE)
    \/ \E c \in ServeConns : WsStep(c)

ServeSpec == SessionInit /\ [][ServeNext]_vars

(***************************************************************************)
(* Properties                                                              *)
(***************************************************************************)

\* C1: a start request whose liveness check runs while the session is live
\* is answered 409 Conflict and returns without reaching the launch call.
StartWhileLiveRejected ==
    [][\A p \in Reqs :
          (pc[p] = "s_check" /\ pc'[p] # "s_check" /\ sessions > 0)
              => (resp'[p] = StatusConflict /\ pc'[p] = "idle" /\ sessions' = sessions)]_vars

\* C2: a stop request whose liveness check runs while no session of the
\* server is live is answered 409 Conflict and returns without sending a command.
StopWhileNotLiveRejected ==
    [][\A p \in Reqs :
          (pc[p] = "t_check" /\ pc'[p] # "t_check" /\ sessions = 0)
              => (resp'[p] = StatusConflict /\ pc'[p] = "idle")]_vars

\* C3: at most one session named screenName exists in every reachable state.
AtMostOneSession == sessions <= 1

\* C4: the status a start or stop request puts in its broadcast is "running"
\* exactly when a session of the server is present at that moment.
ReportedStatusMatchesPresence ==
    [][\A p \in Reqs :
          (pc[p] = "b_check" /\ pc'[p] # "b_check")
              => ((msg'[p].status = "running") <=> (sessions > 0))]_vars

\* C5: in a pass, every connection registered at its start is written at most
\* once, always with the payload marshalled once for the pass, and when the
\* loop is over every such connection has been visited exactly once, whether
\* or not an earlier write failed.
OnePayloadEachPerPass ==
    LET v == pass[Monitor].visits
        Visits(c) == {i \in 1..Len(v) : v[i].conn = c}
    IN pc[Monitor] = "b_write" =>
          /\ \A i \in 1..Len(v) : v[i].conn \in pass[Monitor].start
                                   /\ v[i].data = pass[Monitor].data
          /\ \A c \in Conns : Cardinality(Visits(c)) <= 1
          /\ todo[Monitor] = {} =>
                \A c \in pass[Monitor].start : Cardinality(Visits(c)) = 1

\* C5 witness: two subscribers, the write to the first failed and the second
\* was still written the same payload.
DeliveredAfterFailure ==
    LET v == pass[Monitor].visits
    IN /\ pc[Monitor] = "b_write"
       /\ todo[Monitor] = {}
       /\ Len(v) = 2
       /\ ~v[1].ok
       /\ v[2].ok
       /\ v[2].data = pass[Monitor].data
       /\ v[2].data.status = "running"

\* C6: when the loop of a pass is over, every connection whose write failed
\* is out of the subscriber set and closed, and every connection whose write
\* succeeded is still in the set.
NoSubscriberSurvivesFailedWrite ==
    LET v == pass[Monitor].visits
    IN pc[Monitor] = "b_write" =>
          \A i \in 1..Len(v) :
             IF v[i].ok THEN v[i].conn \in clients
             ELSE v[i].conn \notin clients /\ sock[v[i].conn] = "closed"

\* C6 witness: a finished pass in which one write failed and one succeeded.
PassWithFailureAndSuccess ==
    LET v == pass[Monitor].visits
    IN /\ pc[Monitor] = "b_write"
       /\ todo[Monitor] = {}
       /\ \E i, j \in 1..Len(v) : v[i].ok /\ ~v[j].ok

\* C7: while the write to one subscriber hangs, every other subscriber still
\* waiting in the pass is eventually written, and a connection that wants to
\* subscribe eventually does.
HungSubscriberDoesNotStall ==
    \A c \in Conns :
       /\ (pass[Monitor].hung \notin {NoConn, c} /\ c \in todo[Monitor])
             ~> (c \notin todo[Monitor])
       /\ (pass[Monitor].hung \notin {NoConn, c} /\ ws[c] = "add")
             ~> (ws[c] = "read")

\* C8: getLastLogs returns the last min(10, n) of the n entries appended, in
\* the order they were appended, and never more than 10.
RecentIsLastWindow ==
    LET n == Len(logs)
        k == IF n < 10 THEN n ELSE 10
        r == getLastLogs(logs)
    IN /\ Len(r) = k
       /\ \A i \in 1..k : r[i] = logs[n - k + i]
       /\ Len(recent) <= 10

\* C8 witness: more than ten entries were appended and the window was read.
RecentAfterOverflow ==
    /\ Len(logs) = 12
    /\ recent = getLastLogs(logs)
    /\ Len(recent) = 10
    /\ recent[1] = logs[3]
    /\ recent[1] # recent[10]

\* C9: a stop request whose exit command could not be sent is answered 500,
\* has a failure entry in the log store and no "stopped" entry.
SendFailureIsReported ==
    [][\A p \in Reqs :
          (obs[p].stuff = "failed" /\ pc[p] # "idle" /\ pc'[p] = "idle")
              => /\ resp'[p] = StatusInternalServerError
                 /\ obs[p].appended # <<>>
                 /\ \A i \in 1..Len(obs[p].appended) : obs[p].appended[i] # LogStopped]_vars

\* C10: a failed launch answers 500, creates no session, appends exactly one
\* failure entry, and no liveness check reports the session running before a
\* later launch succeeds.
LaunchFailureLeavesStopped ==
    [][/\ \A p \in Reqs :
             (pc[p] = "s_launch" /\ pc'[p] # "s_launch" /\ entry'[p] = LogFailed)
                 => (resp'[p] = StatusInternalServerError /\ sessions' = sessions)
       /\ \A p \in Reqs :
             (pc[p] = "addLog_cs" /\ entry[p] = LogFailed /\ pc'[p] # "addLog_cs")
                 => (logs' = Append(logs, FormatLog(LogFailed)) /\ pc'[p] = "idle")
       /\ sinceFail' # "running"]_vars

\* C11: the broadcast made by a start request whose launch succeeded writes
\* every subscriber of the pass exactly once, with status "running", an empty
\* player list, no players query sent to the session during the pass, and
\* the "Server started at" entry among the logs.
StartBroadcastsWithoutQuery ==
    [][\A p \in Reqs : \A c \in Conns :
          (obs[p].launch = "ok" /\ pc[p] = "b_write" /\ pc'[p] = "idle"
             /\ c \in pass[p].start)
              => LET v == pass[p].visits
                     d == pass[p].data
                 IN /\ Cardinality({i \in 1..Len(v) : v[i].conn = c}) = 1
                    /\ d.status = "running"
                    /\ d.players = <<>>
                    /\ ~pass[p].queried
                    /\ "logs" \in DOMAIN d
                    /\ \E i \in 1..Len(d.logs) : d.logs[i] = FormatLog(LogStarted)]_vars

\* C12: the roster scraped from a file is the parse of the bottommost line
\* that begins with "Current players" or "Players:"; matching lines above it
\* do not count, even when the bottommost one parses to an empty roster; a
\* file without a matching line gives the empty roster.
ScanTakesBottommostMatch ==
    LET lines == hardcopy.lines
        Begins(l, m) == Len(l) >= Len(m) /\ \A k \in 1..Len(m) : l[k] = m[k]
        Matches(i) == Begins(lines[i], MarkerCurrent) \/ Begins(lines[i], MarkerPlayers)
        Bottommost(i) == Matches(i) /\ \A j \in (i + 1)..Len(lines) : ~Matches(j)
        roster == ExtractPlayers(lines)
    IN /\ (\A i \in 1..Len(lines) : ~Matches(i)) => roster = <<>>
       /\ \A i \in 1..Len(lines) : Bottommost(i) => roster = parsePlayersLine(lines[i])
       /\ (pc[Monitor] = "b_marshal" /\ msg[Monitor].players # <<>>)
             => msg[Monitor].players = roster

\* C12 witness: the file was read, a matching line with the roster A, B lies
\* above the bottommost matching line, and the roster is that of the latter.
ScrapedBelowOlderMatch ==
    /\ pc[Monitor] = "b_marshal"
    /\ hardcopy.lines = <<LinePlayersAB, LineAliceBob, LineChat>>
    /\ msg[Monitor].players = <<<<"A","l","i","c","e">>, <<"B","o","b">>>>

\* C13: for every line of the file that begins with a marker, the roster is
\* computed from the text after the first colon with surrounding whitespace
\* removed: empty when the line has no colon or that text is empty or "None",
\* otherwise the pieces between the occurrences of ", " taken left to right.
RosterIsTextAfterFirstColon ==
    LET Expected(line) ==
          LET colons == {i \in 1..Len(line) : line[i] = ":"}
              first == CHOOSE i \in colons : \A j \in colons : i <= j
              rest == SubSeq(line, first + 1, Len(line))
              inked == {i \in 1..Len(rest) : rest[i] \notin {" ", "\t", "\n", "\r"}}
              lo == CHOOSE i \in inked : \A j \in inked : i <= j
              hi == CHOOSE i \in inked : \A j \in inked : j <= i
              text == IF inked = {} THEN <<>> ELSE SubSeq(rest, lo, hi)
              seps == {i \in 1..(Len(text) - 1) : text[i] = "," /\ text[i + 1] = " "}
              Sep(k) == CHOOSE i \in seps : Cardinality({j \in seps : j < i}) = k - 1
              n == Cardinality(seps) + 1
          IN IF colons = {} THEN <<>>
             ELSE IF text = <<>> \/ text = <<"N","o","n","e">> THEN <<>>
             ELSE [k \in 1..n |->
                     SubSeq(text, IF k = 1 THEN 1 ELSE Sep(k - 1) + 2,
                                  IF k = n THEN Len(text) ELSE Sep(k) - 1)]
        lines == hardcopy.lines
        hits == {i \in 1..Len(lines) : IsPlayersLine(lines[i])}
    IN /\ \A i \in hits : parsePlayersLine(lines[i]) = Expected(lines[i])
       /\ (pc[Monitor] = "b_marshal" /\ msg[Monitor].players # <<>>)
             => \E i \in hits : msg[Monitor].players = Expected(lines[i])

\* C13 witness: the file was read and its bottommost matching line
\* "Players: Alice, Bob" gave the roster Alice, Bob.
ScrapedAliceBob ==
    /\ pc[Monitor] = "b_marshal"
    /\ hardcopy.lines = <<LinePlayersNone, LineAliceBob>>
    /\ msg[Monitor].players = <<<<"A","l","i","c","e">>, <<"B","o","b">>>>

\* C14: every liveness query (the monitor's own and the one inside its
\* broadcast) answers true exactly when a session named screenName is in the
\* registry at that moment, also when sessions of other names are there.
IsRunningIffSessionExists ==
    [][/\ (pc[Monitor] = "m_check" /\ pc'[Monitor] # "m_check")
            => ((pc'[Monitor] = "m_save") <=> (sessions > 0))
       /\ (pc[Monitor] = "b_check" /\ pc'[Monitor] # "b_check")
            => ((pc'[Monitor] = "p_send") <=> (sessions > 0))]_vars

\* C15: a subscriber in the set is eventually written a broadcast by the
\* monitor loop, unless it leaves the set or its own peer stops reading first.
SubscriberEventuallyReceives ==
    \A c \in Conns :
        (c \in clients)
            ~> (\/ c \notin clients
                \/ pass[Monitor].hung = c
                \/ \E i \in 1..Len(pass[Monitor].visits) :
                      pass[Monitor].visits[i].conn = c /\ pass[Monitor].visits[i].ok)

\* C16: in a monitor tick the steps come in the order tick snapshot, players
\* query, wait, second snapshot, scrape, writes.  With the session running,
\* the tick's liveness query leads to the tick snapshot and the broadcast's
\* to the players query, the second snapshot holds the session's window, and
\* the roster of the message is the parse of that snapshot.  With the session
\* not running, no snapshot is taken and no players query is sent.
TickOrder ==
    [][LET at == pc[Monitor]
           to == pc'[Monitor]
       IN /\ (at = "m_check" /\ to # at) => to = (IF sessions > 0 THEN "m_save" ELSE "b_lock")
          /\ (at = "m_save" /\ to # at) => to = "b_lock"
          /\ (at = "b_check" /\ to # at) => to = (IF sessions > 0 THEN "p_send" ELSE "b_marshal")
          /\ (at = "p_send" /\ to # at) => to = "p_sleep"
          /\ (at = "p_sleep" /\ to # at) => to = "p_save"
          /\ (at = "p_save" /\ to # at) => (to = "p_read" /\ hardcopy' = File(screenBuf))
          /\ (at = "p_read" /\ to # at)
                => (to = "b_marshal" /\ msg'[Monitor].players = ExtractPlayers(hardcopy.lines))
          /\ (at = "b_marshal" /\ to # at) => to = "b_write"
          /\ (sessions = 0 /\ at \in {"m_check", "b_lock", "b_logs", "b_logs_cs", "b_check"})
                => (hardcopy' = hardcopy /\ ~pass'[Monitor].queried)]_vars

\* C17: the step in which a start or stop request is answered 405 or 409 is
\* the handler's last: it appends no log entry, launches nothing, sends no
\* command, starts no broadcast and leaves the subscriber set, the session
\* registry, the window dump and both mutexes as they were; a 405 is given
\* in the request's first step, before any liveness query.
RejectedRequestChangesNothing ==
    [][\A p \in Reqs :
          LET wrongMethod == pc[p] = "idle" /\ resp[p] # StatusMethodNotAllowed
                               /\ resp'[p] = StatusMethodNotAllowed
              conflict == pc[p] \in {"s_check", "t_check"} /\ resp'[p] = StatusConflict
          IN (wrongMethod \/ conflict)
                => /\ pc'[p] = "idle"
                   /\ logs' = logs
                   /\ clients' = clients
                   /\ osVars' = osVars
                   /\ obs'[p] = NoObs
                   /\ pass' = pass
                   /\ msg' = msg
                   /\ entry' = entry
                   /\ clientsMu' = clientsMu
                   /\ logMutex' = logMutex
                   /\ wrongMethod => sinceFail' = sinceFail]_vars

\* C17 witness: a request was answered 409 after an earlier one had started
\* the session, with a subscriber in the set and an entry in the log store.
RejectedWithSubscriber ==
    /\ pc["r1"] = "idle"
    /\ resp["r1"] = StatusConflict
    /\ clients # {}
    /\ logs # <<>>
    /\ sessions > 0

\* C18: the two mutexes cannot deadlock.  Each mutex is held exactly when one
\* goroutine is inside its critical section; whoever holds logMutex can take
\* its next step (it never waits for clientsMu); whoever holds clientsMu can
\* take its next step, or waits for logMutex, or is inside a WriteMessage
\* that does not return, which is a wait for the peer and not for a lock.
NoLockDeadlock ==
    LET HoldsLog(p) == pc[p] \in {"addLog_cs", "b_logs_cs"}
        HoldsClients(p) == pc[p] \in {"b_logs", "b_logs_cs", "b_check", "p_send",
                                      "p_sleep", "p_save", "p_read", "b_marshal",
                                      "b_write", "hung"}
        WsHolds(c) == ws[c] \in {"add_cs", "del_cs"}
    IN /\ logMutex <=> (\E p \in Procs : HoldsLog(p))
       /\ Cardinality({p \in Procs : HoldsLog(p)}) <= 1
       /\ clientsMu <=> ((\E p \in Procs : HoldsClients(p)) \/ (\E c \in Conns : WsHolds(c)))
       /\ Cardinality({p \in Procs : HoldsClients(p)})
             + Cardinality({c \in Conns : WsHolds(c)}) <= 1
       /\ \A p \in Procs :
             HoldsLog(p) => ENABLED (AddLogAppend(p) \/ GetLastLogsRead(p))
       /\ \A p \in Procs :
             HoldsClients(p) =>
                \/ pc[p] = "b_logs" /\ logMutex
                \/ pc[p] = "hung"
                \/ ENABLED (SnapshotStep(p, FALSE) \/ \E c \in Conns : BroadcastWrite(p, c))
       /\ \A c \in Conns : WsHolds(c) => ENABLED (WsAdd(c) \/ WsDel(c))

\* C18 witness: the monitor holds clientsMu and waits for logMutex, which a
\* request holds inside addLog, while a websocket handler waits for clientsMu.
BothLocksContended ==
    /\ pc[Monitor] = "b_logs"
    /\ pc["r1"] = "addLog_cs"
    /\ logMutex
    /\ clientsMu
    /\ \E c \in Conns : ws[c] = "add"

\* C19: broadcast passes exclude each other and the websocket handlers.  At
\* most one goroutine is between clientsMu.Lock() and Unlock() of
\* broadcastStatus; while it is, no wsHandler is adding or deleting, the
\* subscriber set changes only by that pass dropping the connection it has
\* just failed to write, and nobody else writes to any connection; so the
\* writes of one pass all come before the writes of the next, for every
\* subscriber alike.
PassesAreSerialized ==
    [][LET InPass(p) == pass[p].active
           others(p) == Procs \ {p}
       IN \A p \in Procs :
             InPass(p) =>
                /\ clientsMu
                /\ \A q \in others(p) : ~InPass(q) /\ pass[q].visits = <<>>
                /\ \A c \in Conns : ws[c] \notin {"add_cs", "del_cs"}
                                     /\ ws'[c] \notin {"add_cs", "del_cs"}
                /\ \A q \in others(p) : pass'[q] = pass[q]
                /\ clients' # clients =>
                      \E c \in todo[p] :
                         /\ clients' = clients \ {c}
                         /\ todo'[p] = todo[p] \ {c}
                         /\ pass'[p].visits
                               = Append(pass[p].visits,
                                        [conn |-> c, ok |-> FALSE, data |-> pass[p].data])]_vars

\* C19 witness: the monitor's pass has written one subscriber and has another
\* to go, while a request waits to begin its own pass.
SecondPassWaits ==
    /\ pc[Monitor] = "b_write"
    /\ Len(pass[Monitor].visits) = 1
    /\ todo[Monitor] # {}
    /\ pc["r1"] = "b_lock"

\* C20: every message written to a subscriber has status "running" or
\* "stopped"; a "stopped" message has an empty player list; and a pass has
\* sent the players query only if its own liveness check answered true (the
\* message it is building says "running").
MessagesAreWellFormed ==
    \A p \in Procs :
       LET v == pass[p].visits
       IN /\ \A i \in 1..Len(v) :
                /\ v[i].data.status \in {"running", "stopped"}
                /\ v[i].data.status = "stopped" => v[i].data.players = <<>>
          /\ msg[p].status \in {"running", "stopped"}
          /\ msg[p].status = "stopped" => msg[p].players = <<>>
          /\ pass[p].queried => msg[p].status = "running"

\* C20 witness: a "stopped" message was written to a subscriber while the
\* hardcopy file of an earlier tick still names players.
StoppedMessageWritten ==
    LET v == pass[Monitor].visits
    IN /\ hardcopy.exists
       /\ ExtractPlayers(hardcopy.lines) # <<>>
       /\ ~pass[Monitor].queried
       /\ \E i \in 1..Len(v) : v[i].ok /\ v[i].data.status = "stopped"

====
